---- MODULE Spec2Model ----
(***************************************************************************)
(* Explicit-bucket histogram aggregators of sdk/metric/internal/aggregate  *)
(* (histogram.go): the bucket accumulator, the mutex-guarded value store,  *)
(* and the delta and cumulative Aggregation (snapshot) methods.            *)
(*                                                                         *)
(* Go slices are modelled as references into a heap (mem) and *buckets     *)
(* pointers as references into a heap of bucket records (bkts), so that    *)
(* aliasing between the store and returned data points is visible.         *)
(* Numbers are integers: measurement values and boundaries are in tenths   *)
(* (50 stands for 5.0, 110 for 11.0).                                      *)
(***************************************************************************)
EXTENDS Integers, Sequences, FiniteSets, TLC

\* ---- bounds of the model ------------------------------------------------
MaxAgg == 2        \* Aggregate calls made by the single-threaded client
MaxSnap == 2       \* Aggregation calls
MaxMut == 1        \* writes the caller makes into slices it holds
NWriters == 2      \* concurrent writer threads
MCalls == 2        \* Aggregate calls each writer thread makes
MaxCollect == 2    \* Aggregation calls the collector thread makes

Writers == 1..NWriters

Attrs == {"a1", "a2"}
Values == {-10, 0, 50, 100, 110}
MutValues == {110}     \* the values the mutating client records
ConcValues == {0, 110}  \* the values the writer threads record
Times == {0, 1}    \* the instants now() can return
\* the aggregation.ExplicitBucketHistogram configurations tried
Cfgs == {[Boundaries |-> <<100, 0, 50>>, NoMinMax |-> FALSE],
         [Boundaries |-> <<50>>, NoMinMax |-> TRUE]}

VARIABLES
    temporality,   \* "delta" or "cumulative": which aggregator was constructed
    noMinMax,      \* cfg.NoMinMax
    cfg,           \* slice reference: cfg.Boundaries, owned by the caller
    bounds,        \* slice reference: histValues.bounds
    start,         \* deltaHistogram.start / cumulativeHistogram.start
    values,        \* histValues.values: attribute set -> *buckets reference
    bkts,          \* heap of buckets structs
    mem,           \* heap of slice backing arrays
    clock,         \* what now() returns
    results,       \* what the Aggregation calls returned, oldest first
    \* history variables (not program state)
    hist,          \* per attribute set: values binned into its current accumulator
    seen,          \* per attribute set: values binned since construction
    calls,         \* per Aggregation call: clock, seen and nMut when it ran
    last,          \* the most recent Aggregate call: value, attr, bucket reference
    nMut,          \* writes made by the caller so far
    \* threads (used by the concurrent specification only)
    mu,            \* histValues.valuesMu: TRUE when locked
    wr,            \* per writer thread: its place in Aggregate and its locals
    col,           \* the collector thread: its place in Aggregation and its locals
    \* instrument.go (used by the instrument specification only)
    inst,          \* an int64Inst / float64Inst / observable: measures, scope, name
    out            \* what its calls did: measure invocations, registerable result

threads == <<mu, wr, col>>

instrument == <<inst, out>>

aggregator == <<temporality, noMinMax, cfg, bounds, start, values, bkts, mem,
                clock, results, hist, seen, calls, last, nMut, mu, wr, col>>

vars == <<temporality, noMinMax, cfg, bounds, start, values, bkts, mem, clock,
          results, hist, seen, calls, last, nMut, mu, wr, col, inst, out>>

\* ---- helpers ------------------------------------------------------------
RECURSIVE SumSeq(_)
SumSeq(s) == IF s = <<>> THEN 0 ELSE Head(s) + SumSeq(Tail(s))

RECURSIVE SumOver(_, _)
SumOver(S, f) ==
    IF S = {} THEN 0
    ELSE LET x == CHOOSE y \in S : TRUE IN f[x] + SumOver(S \ {x}, f)

Zeros(n) == [i \in 1..n |-> 0]

\* sort.Float64s: insertion of each element into an ascending prefix
RECURSIVE InsertSorted(_, _)
InsertSorted(s, x) ==
    IF s = <<>> THEN <<x>>
    ELSE IF x < Head(s) THEN <<x>> \o s
    ELSE <<Head(s)>> \o InsertSorted(Tail(s), x)

RECURSIVE SortFloat64s(_)
SortFloat64s(s) ==
    IF s = <<>> THEN <<>>
    ELSE InsertSorted(SortFloat64s(Tail(s)), Head(s))

\* float64(value): exact for every value of the model (|value| < 2^53)
Float64Of(value) == value

\* sort.SearchFloat64s(a, x): binary search for the smallest 0-based index i
\* with a[i] >= x, or len(a)
RECURSIVE Search(_, _, _, _)
Search(a, x, i, j) ==
    IF i < j
    THEN LET h == (i + j) \div 2
         IN IF ~(a[h + 1] >= x) THEN Search(a, x, h + 1, j)
            ELSE Search(a, x, i, h)
    ELSE i

\* a search that sends a value equal to a boundary to the upper bucket
SearchFloat64sUpper(a, x) == Cardinality({k \in DOMAIN a : a[k] <= x})

SearchFloat64s(a, x) == Search(a, x, 0, Len(a))

\* metricdata.NewExtrema and the zero Extrema
NewExtrema(v) == [valid |-> TRUE, value |-> v]
NoExtrema == [valid |-> FALSE, value |-> 0]

\* the store as one value: the heaps and the map
Store == [mem |-> mem, bkts |-> bkts, values |-> values]

\* a constructor that sorts and keeps the caller's slice
newHistValuesNoCopy(c) ==
    [mem |-> <<SortFloat64s(c)>>, cfg |-> 1, bounds |-> 1]

\* newHistValues: b := make; copy(b, bounds); sort.Float64s(b)
newHistValues(c) ==
    [mem |-> <<c, SortFloat64s(c)>>, cfg |-> 1, bounds |-> 2]

\* newBuckets(n) followed by b.min, b.max = value, value; s.values[attr] = b
newBuckets(S, n) ==
    [mem |-> Append(S.mem, Zeros(n)),
     bkts |-> Append(S.bkts, [counts |-> Len(S.mem) + 1, count |-> 0,
                               sum |-> 0, min |-> 0, max |-> 0]),
     values |-> S.values]

\* an insertion that leaves min and max at their zero value
InsertNewZero(S, attr, value, n) ==
    LET N == newBuckets(S, n)
        b == Len(N.bkts)
    IN [N EXCEPT !.values = [a \in DOMAIN S.values \cup {attr} |->
                               IF a = attr THEN b ELSE S.values[a]]]

InsertNew(S, attr, value, n) ==
    LET N == newBuckets(S, n)
        b == Len(N.bkts)
    IN [N EXCEPT !.bkts[b].min = value, !.bkts[b].max = value,
                 !.values = [a \in DOMAIN S.values \cup {attr} |->
                               IF a = attr THEN b ELSE S.values[a]]]

\* a bin that forgets b.count++
binNoCount(S, b, idx, value) ==
    LET B == S.bkts[b]
        c == B.counts
    IN [S EXCEPT !.mem[c][idx + 1] = @ + 1,
                 !.bkts[b] = [B EXCEPT !.sum = @ + value,
                                       !.min = IF value < B.min THEN value ELSE @,
                                       !.max = IF value > B.max THEN value ELSE @]]

\* buckets.bin on the bucket b refers to
bin(S, b, idx, value) ==
    LET B == S.bkts[b]
        c == B.counts
    IN [S EXCEPT !.mem[c][idx + 1] = @ + 1,
                 !.bkts[b] = [B EXCEPT !.count = @ + 1,
                                       !.sum = @ + value,
                                       !.min = IF value < B.min THEN value ELSE @,
                                       !.max = IF value < B.min THEN @
                                               ELSE IF value > B.max THEN value
                                               ELSE @]]

\* the body of histValues.Aggregate once the lock is held
AggregateBody(S, idx, value, attr) ==
    LET S1 == IF attr \in DOMAIN S.values THEN S
              ELSE InsertNew(S, attr, value, Len(S.mem[bounds]) + 1)
    IN bin(S1, S1.values[attr], idx, value)

\* one HistogramDataPoint
DataPoint(a, B, t, bnds, cnts) ==
    [Attributes |-> a, StartTime |-> start, Time |-> t, Count |-> B.count,
     Bounds |-> bnds, BucketCounts |-> cnts, Sum |-> B.sum,
     Min |-> IF ~noMinMax THEN NewExtrema(B.min) ELSE NoExtrema,
     Max |-> IF ~noMinMax THEN NewExtrema(B.max) ELSE NoExtrema]

\* a delta iteration that forgets delete(s.values, a)
deltaIterKeep(R, a, t, bnds) ==
    LET B == R.S.bkts[R.S.values[a]]
    IN [S |-> R.S,
        dps |-> Append(R.dps, DataPoint(a, B, t, bnds, B.counts))]

\* one iteration of the range loop of deltaHistogram.Aggregation
\* R = [S |-> store, dps |-> data points so far]
deltaIter(R, a, t, bnds) ==
    LET B == R.S.bkts[R.S.values[a]]
    IN [S |-> [R.S EXCEPT !.values =
                  [x \in DOMAIN R.S.values \ {a} |-> R.S.values[x]]],
        dps |-> Append(R.dps, DataPoint(a, B, t, bnds, B.counts))]

\* a cumulative iteration that resets the entry as the delta one does
cumulativeIterReset(R, a, t, bnds) ==
    LET B == R.S.bkts[R.S.values[a]]
        counts == Len(R.S.mem) + 1
    IN [S |-> [R.S EXCEPT !.mem = Append(R.S.mem, R.S.mem[B.counts]),
                          !.values = [x \in DOMAIN R.S.values \ {a} |->
                                        R.S.values[x]]],
        dps |-> Append(R.dps, DataPoint(a, B, t, bnds, counts))]

\* a cumulative iteration that hands out b.counts itself
cumulativeIterAlias(R, a, t, bnds) ==
    LET B == R.S.bkts[R.S.values[a]]
    IN [S |-> R.S,
        dps |-> Append(R.dps, DataPoint(a, B, t, bnds, B.counts))]

\* one iteration of the range loop of cumulativeHistogram.Aggregation
cumulativeIter(R, a, t, bnds) ==
    LET B == R.S.bkts[R.S.values[a]]
        counts == Len(R.S.mem) + 1
    IN [S |-> [R.S EXCEPT !.mem = Append(R.S.mem, R.S.mem[B.counts])],
        dps |-> Append(R.dps, DataPoint(a, B, t, bnds, counts))]

Iter(R, a, t, bnds) ==
    IF temporality = "delta" THEN deltaIter(R, a, t, bnds)
    ELSE cumulativeIter(R, a, t, bnds)

\* the range loop over the keys in the order the map iteration yields them
RECURSIVE Range(_, _, _, _)
Range(R, order, t, bnds) ==
    IF order = <<>> THEN R
    ELSE Range(Iter(R, Head(order), t, bnds), Tail(order), t, bnds)

\* the orders in which a Go map iteration can yield the keys
Orders(K) ==
    {o \in [1..Cardinality(K) -> K] : \A i, j \in 1..Cardinality(K) :
                                         i # j => o[i] # o[j]}

NilResult == [nil |-> TRUE, Temporality |-> "", DataPoints |-> <<>>]

\* a result with no data points that is not nil
emptyHistogram == [nil |-> FALSE, Temporality |-> "", DataPoints |-> <<>>]

\* if len(s.values) == 0 { return nil }
emptyReturn == NilResult

Temporality == IF temporality = "delta" THEN "DeltaTemporality"
               ELSE "CumulativeTemporality"

\* bounds := make([]float64, len(s.bounds)); copy(bounds, s.bounds)
copyBounds(S) == [S EXCEPT !.mem = Append(S.mem, S.mem[bounds])]

\* start after an Aggregation that reported at time t
deltaStartKept(t) == start
deltaStart(t) == t
\* a cumulative snapshot that resets the cycle as the delta one does
cumulativeStartAdvance(t) == t
cumulativeStart(t) == start
nextStart(t) == IF temporality = "delta" THEN deltaStart(t)
                ELSE cumulativeStart(t)

BagAdd(h, attr, value) == [h EXCEPT ![attr][value] = @ + 1]
EmptyBag == [v \in Values |-> 0]
\* the history of an accumulator ends when it leaves the map
Forget(h, kept) == [a \in Attrs |-> IF a \in kept THEN h[a] ELSE EmptyBag]

\* instrumentation.Scope
ZeroScope == [Name |-> "", Version |-> "", SchemaURL |-> ""]
\* no instrument constructed, nothing called
NoInst == [number |-> "int64", measures |-> <<>>, scope |-> ZeroScope,
           name |-> ""]
NilError == [kind |-> "nil", observable |-> "", from |-> "", with |-> ""]
NoCall == [op |-> "", ctxErr |-> "nil", val |-> 0, attr |-> "",
           scope |-> ZeroScope]
NoOut == [trace |-> <<>>, n |-> 0, call |-> NoCall, err |-> NilError]

IdleWriter == [pc |-> "idle", value |-> 0, attr |-> "", idx |-> 0, b |-> 0,
               done |-> 0]
IdleCollector == [pc |-> "idle", t |-> 0, bnds |-> 0, order |-> <<>>,
                  dps |-> <<>>, ret |-> NilResult]

\* ---- the initial state: after newDeltaHistogram / newCumulativeHistogram
InitAggregator ==
    /\ temporality \in {"delta", "cumulative"}
    /\ clock = 0
    /\ \E c \in Cfgs :
         LET H == newHistValues(c.Boundaries)
         IN /\ mem = H.mem
            /\ cfg = H.cfg
            /\ bounds = H.bounds
            /\ noMinMax = c.NoMinMax
    /\ start = clock
    /\ values = <<>>
    /\ bkts = <<>>
    /\ results = <<>>
    /\ hist = [a \in Attrs |-> EmptyBag]
    /\ seen = [a \in Attrs |-> EmptyBag]
    /\ calls = <<>>
    /\ last = [value |-> 0, attr |-> "", b |-> 0, n |-> 0]
    /\ nMut = 0
    /\ mu = FALSE
    /\ wr = [w \in Writers |-> IdleWriter]
    /\ col = IdleCollector

Init ==
    /\ InitAggregator
    /\ inst = NoInst
    /\ out = NoOut

\* ---- actions ------------------------------------------------------------
\* histValues.Aggregate(value, attr), called by a single-threaded client
Aggregate(value, attr) ==
    /\ last.n < MaxAgg
    /\ LET idx == SearchFloat64s(mem[bounds], Float64Of(value))
           S == AggregateBody(Store, idx, value, attr)
       IN /\ mem' = S.mem
          /\ bkts' = S.bkts
          /\ values' = S.values
          /\ last' = [value |-> value, attr |-> attr, b |-> S.values[attr],
                      n |-> last.n + 1]
    /\ hist' = BagAdd(hist, attr, value)
    /\ seen' = BagAdd(seen, attr, value)
    /\ UNCHANGED <<instrument, temporality, noMinMax, cfg, bounds, start, clock, results,
                   calls, nMut, threads>>

\* deltaHistogram.Aggregation / cumulativeHistogram.Aggregation
Aggregation(now) ==
    /\ Len(results) < MaxSnap
    /\ clock' = now
    /\ calls' = Append(calls, [at |-> now, seen |-> seen, nMut |-> nMut])
    /\ IF DOMAIN values = {}
       THEN /\ results' = Append(results, emptyReturn)
            /\ UNCHANGED <<mem, bkts, values, start, hist>>
       ELSE \E order \in Orders(DOMAIN values) :
              LET t == now
                  S0 == copyBounds(Store)
                  bnds == Len(S0.mem)
                  R == Range([S |-> S0, dps |-> <<>>], order, t, bnds)
              IN /\ mem' = R.S.mem
                 /\ bkts' = R.S.bkts
                 /\ values' = R.S.values
                 /\ start' = nextStart(t)
                 /\ results' = Append(results,
                        [nil |-> FALSE, Temporality |-> Temporality,
                         DataPoints |-> R.dps])
                 /\ hist' = Forget(hist, DOMAIN R.S.values)
    /\ UNCHANGED <<instrument, temporality, noMinMax, cfg, bounds, seen, last, nMut,
                   threads>>

\* the data points returned so far, as <<result index, data point index>>
Returned ==
    {p \in (1..Len(results)) \X (1..Cardinality(Attrs)) :
        p[2] <= Len(results[p[1]].DataPoints)}

\* the caller overwrites the elements of a slice it holds
Write(c) ==
    /\ nMut < MaxMut
    /\ mem[c] # <<>>
    /\ mem' = [mem EXCEPT ![c] = [j \in DOMAIN @ |-> @[j] + 1]]
    /\ nMut' = nMut + 1
    /\ UNCHANGED <<instrument, temporality, noMinMax, cfg, bounds, start, values, bkts,
                   clock, results, hist, seen, calls, last, threads>>

\* ... the BucketCounts of a returned data point
MutateCounts(p) == Write(results[p[1]].DataPoints[p[2]].BucketCounts)

\* ... the Bounds of a returned data point
MutateBounds(p) == Write(results[p[1]].DataPoints[p[2]].Bounds)

\* ... the configuration slice the aggregator was built from
MutateCfg == Write(cfg)

\* the instants a call made now or later can read from now()
Later == {t \in Times : t >= clock}

\* a single-threaded client of one aggregator
Next ==
    \/ \E value \in Values, attr \in Attrs : Aggregate(value, attr)
    \/ \E now \in Later : Aggregation(now)

Spec == Init /\ [][Next]_vars

\* the same client, which also writes into the slices it holds
NextMut ==
    \/ \E value \in MutValues, attr \in Attrs : Aggregate(value, attr)
    \/ \E now \in Later : Aggregation(now)
    \/ \E p \in Returned : MutateCounts(p)
    \/ \E p \in Returned : MutateBounds(p)
    \/ MutateCfg

SpecMut == Init /\ [][NextMut]_vars

\* ---- what the claims speak about ----------------------------------------
\* the accumulator of an attribute set in the store, and its bucket counts
Acc(a) == bkts[values[a]]
Counts(a) == mem[Acc(a).counts]

\* number of values in a bag, and their sum
Support(h) == {v \in Values : h[v] > 0}
Size(h) == SumOver(Support(h), h)
Total(h) == SumOver(Support(h), [v \in Values |-> v * h[v]])

\* the number of configured boundaries strictly less than v
Below(v) == Cardinality({k \in DOMAIN mem[bounds] : mem[bounds][k] < v})

\* the bucket counts a bag of values gives
BucketsOf(h) ==
    [i \in 1..(Len(mem[bounds]) + 1) |->
        SumOver({v \in Support(h) : Below(v) = i - 1}, h)]

\* the data points of the i-th Aggregation call, as a set
Points(i) == {results[i].DataPoints[k] : k \in 1..Len(results[i].DataPoints)}
Reported(i) == {p.Attributes : p \in Points(i)}

\* C1: every accumulator in the store has count equal to the sum of its
\* per-bucket counts, after any sequence of Aggregate and Aggregation calls.
C1_CountIsSumOfBuckets ==
    \A a \in DOMAIN values : Acc(a).count = SumSeq(Counts(a))

C1_Witness ==
    /\ Len(results) >= 1
    /\ \E a \in DOMAIN values :
         /\ Acc(a).count = 2
         /\ Cardinality({i \in DOMAIN Counts(a) : Counts(a)[i] = 1}) = 2

\* C2: an Aggregate(value, attr) call increments exactly one bucket of the
\* accumulator of attr, the one whose index is the number of boundaries
\* strictly less than value, and changes no other accumulator's buckets.
CountsAfter(a) == mem'[bkts'[values'[a]].counts]

C2_Step ==
    last'.n # last.n =>
       LET a == last'.attr
           before == IF a \in DOMAIN values THEN Counts(a)
                     ELSE Zeros(Len(mem[bounds]) + 1)
       IN /\ a \in DOMAIN values'
          /\ CountsAfter(a) = [i \in DOMAIN before |->
                             IF i = Below(last'.value) + 1 THEN before[i] + 1
                             ELSE before[i]]
          /\ \A x \in DOMAIN values \ {a} :
                x \in DOMAIN values' /\ CountsAfter(x) = Counts(x)

C2_OneBucketByBoundary == [][C2_Step]_vars

\* boundaries [0, 5, 10]: 5 fell in bucket 1 and 11 in bucket 3
C2_Witness ==
    /\ mem[bounds] = <<0, 50, 100>>
    /\ \E a \in DOMAIN values :
         /\ last.attr = a
         /\ last.value = 50
         /\ Counts(a) = <<0, 1, 0, 1>>
         /\ hist[a][110] = 1

\* C3: on a delta aggregator a snapshot with no Aggregate call since the
\* snapshot before it has no data points, and an attribute set reported by one
\* snapshot is reported by a later one only if Aggregate was called for it in
\* between, with counts that start from zero.
C3_DeltaReset ==
    temporality = "delta" =>
       /\ \A i \in 2..Len(results) :
             calls[i].seen = calls[i - 1].seen => results[i].DataPoints = <<>>
       /\ \A i, j \in 1..Len(results) :
             i < j =>
               \A p \in Points(i), q \in Points(j) :
                  p.Attributes = q.Attributes =>
                     LET since == Size(calls[j].seen[q.Attributes])
                                    - Size(calls[i].seen[q.Attributes])
                     IN /\ since > 0
                        /\ q.Count <= since
                        /\ SumSeq(mem[q.BucketCounts]) <= since
       /\ Len(calls) > 0 =>
             \A a \in Attrs :
                LET since == Size(seen[a]) - Size(calls[Len(calls)].seen[a])
                IN IF a \in DOMAIN values THEN Acc(a).count = since
                   ELSE since = 0

C3_Witness ==
    /\ temporality = "delta"
    /\ Len(results) = 2
    /\ results[1].DataPoints # <<>>
    /\ calls[2].seen = calls[1].seen
    /\ results[2].DataPoints = <<>>

\* C4: every data point of every snapshot of a cumulative aggregator has the
\* count, sum and bucket counts of all values accumulated for its attribute
\* set since construction, however many snapshots were taken before.
C4_CumulativePersistence ==
    temporality = "cumulative" =>
       \A i \in 1..Len(results) :
          /\ Reported(i) = {a \in Attrs : Support(calls[i].seen[a]) # {}}
          /\ \A p \in Points(i) :
                LET h == calls[i].seen[p.Attributes]
                IN /\ p.Count = Size(h)
                   /\ p.Sum = Total(h)
                   /\ mem[p.BucketCounts] = BucketsOf(h)

C4_Witness ==
    /\ temporality = "cumulative"
    /\ Len(results) = 2
    /\ \E p \in Points(1), q \in Points(2) :
          /\ p.Attributes = q.Attributes
          /\ p.Count = 1
          /\ q.Count = 2
          /\ q.Sum # p.Sum

\* C5: min and max of every accumulator are the smallest and the largest of
\* the values accumulated into it since it was created; after one
\* accumulation both are that value.
C5_MinMax ==
    \A a \in DOMAIN values :
       /\ Support(hist[a]) # {}
       /\ Acc(a).min \in Support(hist[a])
       /\ Acc(a).max \in Support(hist[a])
       /\ \A v \in Support(hist[a]) : Acc(a).min <= v /\ v <= Acc(a).max

\* positive values only, zero never observed, the smaller one binned last
C5_Witness ==
    \E a \in DOMAIN values :
       /\ Acc(a).count = 2
       /\ hist[a][50] = 1 /\ hist[a][110] = 1
       /\ Acc(a).min = 50
       /\ Acc(a).max = 110
       /\ last.attr = a
       /\ last.value = 50

\* C7: a caller's write into the BucketCounts of a returned data point leaves
\* every accumulator of the store as it was, and a snapshot taken afterwards
\* reports the bucket counts of the values accumulated, not the written ones.
StoreView ==
    [a \in DOMAIN values |->
        [count |-> Acc(a).count, sum |-> Acc(a).sum, min |-> Acc(a).min,
         max |-> Acc(a).max, counts |-> Counts(a)]]

C7_Step ==
    /\ (\E p \in Returned : MutateCounts(p)) => StoreView' = StoreView
    /\ Len(results') > Len(results) /\ nMut > 0 =>
          \A k \in 1..Len(results'[Len(results')].DataPoints) :
             LET q == results'[Len(results')].DataPoints[k]
             IN /\ q.Attributes \in DOMAIN values
                /\ mem'[q.BucketCounts] = BucketsOf(hist[q.Attributes])
                /\ q.Count = Size(hist[q.Attributes])

C7_MutationLeavesStore == [][C7_Step]_vars

\* the counts of a data point of the first snapshot were overwritten before
\* the second snapshot reported the same attribute set
C7_Witness ==
    /\ Len(results) = 2
    /\ calls[1].nMut = 0
    /\ calls[2].nMut = 1
    /\ \E p \in Points(1), q \in Points(2) :
          /\ p.Attributes = q.Attributes
          /\ SumSeq(mem[p.BucketCounts]) # p.Count
          /\ SumSeq(mem[q.BucketCounts]) = q.Count

\* C8: no Aggregate or Aggregation call changes any field of a data point an
\* earlier snapshot returned, the contents of its Bounds and BucketCounts
\* included.
View(p) == [p EXCEPT !.Bounds = mem[p.Bounds],
                     !.BucketCounts = mem[p.BucketCounts]]

ReturnedViews ==
    [i \in 1..Len(results) |->
        [k \in 1..Len(results[i].DataPoints) |-> View(results[i].DataPoints[k])]]

C8_Step == SubSeq(ReturnedViews', 1, Len(results)) = ReturnedViews

C8_ReturnedPointsFrozen == [][C8_Step]_vars

\* a delta snapshot reported an attribute set, Aggregate was called again for
\* it with a value of another bucket, and a second snapshot reported it
C8_Witness ==
    /\ temporality = "delta"
    /\ Len(results) = 2
    /\ \E p \in Points(1), q \in Points(2) :
          /\ p.Attributes = q.Attributes
          /\ mem[p.BucketCounts] # mem[q.BucketCounts]

\* C9 as claimed: a snapshot taken when no data has been accumulated since the
\* last cycle start returns a result that is not nil and has no data points.
NoSeen == [a \in Attrs |-> EmptyBag]

NoDataAt(i) ==
    calls[i].seen = (IF temporality = "delta" /\ i > 1 THEN calls[i - 1].seen
                     ELSE NoSeen)

C9_EmptyIsNotNil ==
    \A i \in 1..Len(results) :
       NoDataAt(i) => ~results[i].nil /\ results[i].DataPoints = <<>>

\* C9 as amended: such a snapshot returns nil, and a snapshot returns nil only
\* then: every other snapshot returns a histogram with at least one data point.
C9_EmptyIsNil ==
    \A i \in 1..Len(results) :
       IF NoDataAt(i) THEN results[i].nil /\ results[i].DataPoints = <<>>
       ELSE ~results[i].nil /\ results[i].DataPoints # <<>>

C9_Witness ==
    /\ temporality = "delta"
    /\ Len(results) = 2
    /\ ~results[1].nil
    /\ NoDataAt(2)
    /\ results[2].nil

\* C10 as claimed: every delta snapshot call, with or without data points,
\* sets start to its time, so the StartTime of the data points of a delta
\* snapshot is the time of the snapshot call right before it, or the
\* construction time.
C10_StartIsPrecedingCall ==
    temporality = "delta" =>
       /\ \A i \in 1..Len(results) : \A p \in Points(i) :
             p.StartTime = (IF i = 1 THEN 0 ELSE calls[i - 1].at)
       /\ Len(calls) > 0 => start = calls[Len(calls)].at

\* C10 as amended: only a delta snapshot that returns data points sets start
\* to its time; one that finds the store empty leaves start alone. StartTime
\* is the time of the latest earlier snapshot that returned data points, or
\* the construction time.
LastReportBefore(i) ==
    LET J == {j \in 1..(i - 1) : ~results[j].nil}
    IN IF J = {} THEN 0
       ELSE calls[CHOOSE j \in J : \A k \in J : k <= j].at

C10_StartIsLastReport ==
    temporality = "delta" =>
       /\ \A i \in 1..Len(results) : \A p \in Points(i) :
             /\ p.StartTime = LastReportBefore(i)
             /\ p.Time = calls[i].at
       /\ start = LastReportBefore(Len(results) + 1)

\* an empty snapshot at time 1, then a snapshot with data whose StartTime is
\* still the construction time
C10_Witness ==
    /\ temporality = "delta"
    /\ Len(results) = 2
    /\ results[1].nil
    /\ calls[1].at = 1
    /\ \E p \in Points(2) : p.StartTime = 0
    /\ start = 1

\* C11: the start of a cumulative aggregator is the construction time for
\* good: no call changes it, and every data point of every snapshot carries
\* it as its StartTime.
C11_CumulativeStartFixed ==
    temporality = "cumulative" =>
       /\ start = 0
       /\ \A i \in 1..Len(results) : \A p \in Points(i) :
             p.StartTime = 0 /\ p.Time = calls[i].at

\* two snapshots with data, both taken after the construction time
C11_Witness ==
    /\ temporality = "cumulative"
    /\ Len(results) = 2
    /\ calls[1].at = 1
    /\ \E p \in Points(1), q \in Points(2) :
          p.StartTime = 0 /\ q.StartTime = 0 /\ q.Time = 1

\* ---- writer threads and a collector thread on one aggregator ------------
config == <<temporality, noMinMax, cfg, bounds>>

\* a Lock() that never waits
canLockAlways == TRUE

\* valuesMu.Lock() returns only when the mutex is not held
canLock == ~mu

\* Aggregate line 81: the search, before the lock is requested
WCall(w, value, attr) ==
    /\ wr[w].pc = "idle"
    /\ wr[w].done < MCalls
    /\ wr' = [wr EXCEPT ![w] = [@ EXCEPT !.pc = "lock", !.value = value,
                  !.attr = attr,
                  !.idx = SearchFloat64s(mem[bounds], Float64Of(value))]]
    /\ UNCHANGED <<instrument, config, start, values, bkts, mem, clock, results, hist,
                   seen, calls, last, nMut, mu, col>>

\* s.valuesMu.Lock()
WLock(w) ==
    /\ wr[w].pc = "lock"
    /\ canLock
    /\ mu' = TRUE
    /\ wr' = [wr EXCEPT ![w].pc = "lookup"]
    /\ UNCHANGED <<instrument, config, start, values, bkts, mem, clock, results, hist,
                   seen, calls, last, nMut, col>>

\* b, ok := s.values[attr]
WLookup(w) ==
    /\ wr[w].pc = "lookup"
    /\ IF wr[w].attr \in DOMAIN values
       THEN wr' = [wr EXCEPT ![w].pc = "bin", ![w].b = values[wr[w].attr]]
       ELSE wr' = [wr EXCEPT ![w].pc = "insert"]
    /\ UNCHANGED <<instrument, config, start, values, bkts, mem, clock, results, hist,
                   seen, calls, last, nMut, mu, col>>

\* if !ok { b = newBuckets(...); b.min, b.max = value, value; s.values[attr] = b }
WInsert(w) ==
    /\ wr[w].pc = "insert"
    /\ LET S == InsertNew(Store, wr[w].attr, wr[w].value, Len(mem[bounds]) + 1)
       IN /\ mem' = S.mem
          /\ bkts' = S.bkts
          /\ values' = S.values
          /\ wr' = [wr EXCEPT ![w].pc = "bin", ![w].b = S.values[wr[w].attr]]
    /\ UNCHANGED <<instrument, config, start, clock, results, hist, seen, calls, last, nMut,
                   mu, col>>

\* b.bin(idx, value)
WBin(w) ==
    /\ wr[w].pc = "bin"
    /\ LET S == bin(Store, wr[w].b, wr[w].idx, wr[w].value)
       IN /\ mem' = S.mem
          /\ bkts' = S.bkts
          /\ values' = S.values
    /\ hist' = BagAdd(hist, wr[w].attr, wr[w].value)
    /\ seen' = BagAdd(seen, wr[w].attr, wr[w].value)
    /\ last' = [value |-> wr[w].value, attr |-> wr[w].attr, b |-> wr[w].b,
                n |-> last.n + 1]
    /\ wr' = [wr EXCEPT ![w].pc = "unlock"]
    /\ UNCHANGED <<instrument, config, start, clock, results, calls, nMut, mu, col>>

\* the deferred s.valuesMu.Unlock() and the return
WUnlock(w) ==
    /\ wr[w].pc = "unlock"
    /\ mu' = FALSE
    /\ wr' = [wr EXCEPT ![w].pc = "idle", ![w].done = @ + 1]
    /\ UNCHANGED <<instrument, config, start, values, bkts, mem, clock, results, hist,
                   seen, calls, last, nMut, col>>

\* the collector calls Aggregation
CCall ==
    /\ col.pc = "idle"
    /\ Len(results) < MaxCollect
    /\ col' = [IdleCollector EXCEPT !.pc = "lock"]
    /\ UNCHANGED <<instrument, config, start, values, bkts, mem, clock, results, hist,
                   seen, calls, last, nMut, mu, wr>>

\* s.valuesMu.Lock()
CLock ==
    /\ col.pc = "lock"
    /\ canLock
    /\ mu' = TRUE
    /\ col' = [col EXCEPT !.pc = "check"]
    /\ UNCHANGED <<instrument, config, start, values, bkts, mem, clock, results, hist,
                   seen, calls, last, nMut, wr>>

\* a return that leaves without running the deferred Unlock
returnLocked == "idle"

\* where a return inside Aggregation goes: to the deferred s.valuesMu.Unlock()
returnDeferred == "unlock"

\* if len(s.values) == 0 { return nil }; t := now(); the copy of the bounds
CCheck(now) ==
    /\ col.pc = "check"
    /\ clock' = now
    /\ calls' = Append(calls, [at |-> now, seen |-> seen, nMut |-> nMut])
    /\ IF DOMAIN values = {}
       THEN /\ col' = [col EXCEPT !.pc = returnDeferred, !.ret = emptyReturn]
            /\ UNCHANGED mem
       ELSE \E order \in Orders(DOMAIN values) :
              LET S0 == copyBounds(Store)
              IN /\ mem' = S0.mem
                 /\ col' = [col EXCEPT !.pc = "range", !.t = now,
                                       !.bnds = Len(S0.mem), !.order = order]
    /\ UNCHANGED <<instrument, config, start, values, bkts, results, hist, seen, last,
                   nMut, mu, wr>>

\* one iteration of for a, b := range s.values
CIter ==
    /\ col.pc = "range"
    /\ col.order # <<>>
    /\ LET a == Head(col.order)
           R == IF a \in DOMAIN values
                THEN Iter([S |-> Store, dps |-> col.dps], a, col.t, col.bnds)
                ELSE [S |-> Store, dps |-> col.dps]
       IN /\ mem' = R.S.mem
          /\ bkts' = R.S.bkts
          /\ values' = R.S.values
          /\ col' = [col EXCEPT !.order = Tail(@), !.dps = R.dps]
          /\ hist' = Forget(hist, DOMAIN R.S.values)
    /\ UNCHANGED <<instrument, config, start, clock, results, seen, calls, last, nMut, mu,
                   wr>>

\* after the loop: s.start = t (delta), return h
CReturn ==
    /\ col.pc = "range"
    /\ col.order = <<>>
    /\ start' = nextStart(col.t)
    /\ col' = [col EXCEPT !.pc = returnDeferred,
                  !.ret = [nil |-> FALSE, Temporality |-> Temporality,
                           DataPoints |-> col.dps]]
    /\ UNCHANGED <<instrument, config, values, bkts, mem, clock, results, hist, seen,
                   calls, last, nMut, mu, wr>>

\* the deferred s.valuesMu.Unlock(); the caller receives the result
CUnlock ==
    /\ col.pc = "unlock"
    /\ mu' = FALSE
    /\ results' = Append(results, col.ret)
    /\ col' = [col EXCEPT !.pc = "idle"]
    /\ UNCHANGED <<instrument, config, start, values, bkts, mem, clock, hist, seen, calls,
                   last, nMut, wr>>

NextConc ==
    \/ \E w \in Writers, value \in ConcValues, attr \in Attrs :
          WCall(w, value, attr)
    \/ \E w \in Writers : WLock(w)
    \/ \E w \in Writers : WLookup(w)
    \/ \E w \in Writers : WInsert(w)
    \/ \E w \in Writers : WBin(w)
    \/ \E w \in Writers : WUnlock(w)
    \/ CCall
    \/ CLock
    \/ \E now \in Later : CCheck(now)
    \/ CIter
    \/ CReturn
    \/ CUnlock

InitConc ==
    /\ Init
    /\ ~noMinMax
    /\ mem[cfg] = <<100, 0, 50>>

SpecConc == InitConc /\ [][NextConc]_vars

\* C6: with concurrent writers no update is lost: as long as no accumulator
\* has been removed by a delta snapshot, the counts of the accumulators in the
\* store add up to the number of Aggregate calls that have binned their
\* value, which is NWriters * MCalls once every writer has returned from all
\* its calls.
BinsDone ==
    SumOver(Writers, [w \in Writers |->
        wr[w].done + (IF wr[w].pc = "unlock" THEN 1 ELSE 0)])

StoreTotal == SumOver(DOMAIN values, [a \in DOMAIN values |-> Acc(a).count])

NothingRemoved ==
    \/ temporality = "cumulative"
    \/ /\ col.dps = <<>>
       /\ \A i \in 1..Len(results) : results[i].DataPoints = <<>>

AllReturned == \A w \in Writers : wr[w].pc = "idle" /\ wr[w].done = MCalls

C6_NoLostUpdates ==
    NothingRemoved =>
       /\ StoreTotal = BinsDone
       /\ AllReturned => StoreTotal = NWriters * MCalls

\* all the calls were for one shared attribute set
C6_Witness ==
    /\ AllReturned
    /\ NothingRemoved
    /\ Cardinality(DOMAIN values) = 1
    /\ StoreTotal = NWriters * MCalls

\* ---------------------------------------------------------------------------
\* instrument.go: synchronous instruments and observables
\* ---------------------------------------------------------------------------

\* number of instrument calls explored
MaxRec == 2

\* ctx.Err(): nil, context.Canceled or context.DeadlineExceeded
CtxErrs == {"nil", "canceled", "deadline"}

InstValues == {0, 110}

\* registered measure functions, as the pipeline hands them to the instrument
MeasureLists == {<<>>, <<"m1">>, <<"m1", "m2">>, <<"m2", "m1">>}

\* scopes that differ in exactly one field from the first one
Scopes ==
    {[Name |-> "a", Version |-> "1", SchemaURL |-> "u"],
     [Name |-> "b", Version |-> "1", SchemaURL |-> "u"],
     [Name |-> "a", Version |-> "2", SchemaURL |-> "u"],
     [Name |-> "a", Version |-> "1", SchemaURL |-> "v"]}

CreationScopes ==
    {[Name |-> "a", Version |-> "1", SchemaURL |-> "u"],
     [Name |-> "b", Version |-> "1", SchemaURL |-> "u"]}

\* in(ctx, val, s): one invocation of a measure function
Invoke(m, val, attr) == [m |-> m, val |-> val, attr |-> attr]

measureFirst(ms, val, attr) ==
    IF ms = <<>> THEN <<>> ELSE <<Invoke(ms[1], val, attr)>>

\* for _, in := range measures { in(ctx, val, s) }
measureAll(ms, val, attr) ==
    [k \in 1..Len(ms) |-> Invoke(ms[k], val, attr)]

int64InstAggregateNoCheck(i, trace, ctxErr, val, attr) ==
    trace \o measureAll(i.measures, val, attr)

\* int64Inst.aggregate: the invocations made so far, after this call
int64InstAggregate(i, trace, ctxErr, val, attr) ==
    IF ctxErr # "nil"
    THEN trace
    ELSE trace \o measureAll(i.measures, val, attr)

\* float64Inst.aggregate
float64InstAggregate(i, trace, ctxErr, val, attr) ==
    IF ctxErr # "nil"
    THEN trace
    ELSE trace \o measureAll(i.measures, val, attr)

instAggregate(i, trace, ctxErr, val, attr) ==
    IF i.number = "int64"
    THEN int64InstAggregate(i, trace, ctxErr, val, attr)
    ELSE float64InstAggregate(i, trace, ctxErr, val, attr)

\* observable.observe: no context to check, context.Background() is passed on
observe(o, trace, val, attr) == trace \o measureAll(o.measures, val, attr)

errEmptyAgg ==
    [kind |-> "errEmptyAgg", observable |-> "", from |-> "", with |-> ""]

registerableNameOnly(o, scope) ==
    IF Len(o.measures) = 0
    THEN errEmptyAgg
    ELSE IF scope.Name # o.scope.Name
         THEN [kind |-> "mismatch", observable |-> o.name,
               from |-> o.scope.Name, with |-> scope.Name]
         ELSE NilError

\* observable.registerable
registerable(o, scope) ==
    IF Len(o.measures) = 0
    THEN errEmptyAgg
    ELSE IF scope # o.scope
         THEN [kind |-> "mismatch", observable |-> o.name,
               from |-> o.scope.Name, with |-> scope.Name]
         ELSE NilError

Call(op, ctxErr, val, attr, scope) ==
    [op |-> op, ctxErr |-> ctxErr, val |-> val, attr |-> attr, scope |-> scope]

\* int64Inst.Add / float64Inst.Add
Add(ctxErr, val, attr) ==
    /\ out.n < MaxRec
    /\ out' = [out EXCEPT
                 !.trace = instAggregate(inst, out.trace, ctxErr, val, attr),
                 !.n = @ + 1,
                 !.call = Call("Add", ctxErr, val, attr, ZeroScope)]
    /\ UNCHANGED <<aggregator, inst>>

\* int64Inst.Record / float64Inst.Record
Record(ctxErr, val, attr) ==
    /\ out.n < MaxRec
    /\ out' = [out EXCEPT
                 !.trace = instAggregate(inst, out.trace, ctxErr, val, attr),
                 !.n = @ + 1,
                 !.call = Call("Record", ctxErr, val, attr, ZeroScope)]
    /\ UNCHANGED <<aggregator, inst>>

Observe(val, attr) ==
    /\ out.n < MaxRec
    /\ out' = [out EXCEPT
                 !.trace = observe(inst, out.trace, val, attr),
                 !.n = @ + 1,
                 !.call = Call("observe", "nil", val, attr, ZeroScope)]
    /\ UNCHANGED <<aggregator, inst>>

Registerable(scope) ==
    /\ out.n < MaxRec
    /\ out' = [out EXCEPT
                 !.err = registerable(inst, scope),
                 !.n = @ + 1,
                 !.call = Call("registerable", "nil", 0, "", scope)]
    /\ UNCHANGED <<aggregator, inst>>

\* an instrument as the meter builds it: measures from the pipeline, the
\* meter's scope and the instrument's name
InitInst ==
    /\ InitAggregator
    /\ temporality = "delta"
    /\ ~noMinMax
    /\ inst \in [number : {"int64", "float64"}, measures : MeasureLists,
                 scope : CreationScopes, name : {"obs"}]
    /\ out = NoOut

NextInst ==
    \/ \E e \in CtxErrs, v \in InstValues, a \in Attrs : Add(e, v, a)
    \/ \E e \in CtxErrs, v \in InstValues, a \in Attrs : Record(e, v, a)
    \/ \E v \in InstValues, a \in Attrs : Observe(v, a)
    \/ \E sc \in Scopes : Registerable(sc)

SpecInst == InitInst /\ [][NextInst]_vars

Synchronous == out'.n = out.n + 1 /\ out'.call.op \in {"Add", "Record"}

\* C12: an Add or Record whose context is already canceled or expired drops
\* the measurement: no measure function is invoked, no aggregator state
\* changes and nothing is reported back to the caller.
C12_Step ==
    (Synchronous /\ out'.call.ctxErr # "nil") =>
        /\ out'.trace = out.trace
        /\ out'.err = out.err
        /\ UNCHANGED <<aggregator, inst>>

C12_CanceledIsDropped == [][C12_Step]_vars

C12_Witness ==
    /\ out.n = 2
    /\ out.call.op = "Record"
    /\ out.call.ctxErr = "deadline"
    /\ Len(inst.measures) = 2
    /\ Len(out.trace) = 2

\* the invocations a call added to the trace
Added == SubSeq(out'.trace, Len(out.trace) + 1, Len(out'.trace))

\* C13: an Add or Record whose context is not canceled invokes every
\* registered measure function exactly once, in registration order, each with
\* the value and the attribute set of the call.
C13_Step ==
    (Synchronous /\ out'.call.ctxErr = "nil") =>
        /\ Len(out'.trace) = Len(out.trace) + Len(inst.measures)
        /\ SubSeq(out'.trace, 1, Len(out.trace)) = out.trace
        /\ \A k \in 1..Len(inst.measures) :
              /\ Added[k].m = inst.measures[k]
              /\ Added[k].val = out'.call.val
              /\ Added[k].attr = out'.call.attr
        /\ \A k \in 1..Len(inst.measures) :
              Cardinality({j \in 1..Len(Added) :
                              Added[j].m = inst.measures[k]}) = 1

C13_EveryMeasureInOrder == [][C13_Step]_vars

C13_Witness ==
    /\ out.n = 2
    /\ out.call.op = "Add"
    /\ out.call.ctxErr = "nil"
    /\ inst.measures = <<"m2", "m1">>
    /\ Len(out.trace) = 4
    /\ out.trace[3].m = "m2" /\ out.trace[4].m = "m1"
    /\ out.trace[1].val # out.trace[3].val

\* C14: registerable fails with errEmptyAgg when the observable has no
\* measure function; otherwise with a scope mismatch naming the observable and
\* both scopes when the scope differs in name, version or schema URL from the
\* one the observable was created under; and returns nil exactly when there
\* is a measure function and the scopes are equal.
C14_Registerable ==
    out.call.op = "registerable" =>
        LET s == out.call.scope
            differs == \/ s.Name # inst.scope.Name
                       \/ s.Version # inst.scope.Version
                       \/ s.SchemaURL # inst.scope.SchemaURL
        IN /\ Len(inst.measures) = 0 => out.err = errEmptyAgg
           /\ (Len(inst.measures) > 0 /\ differs) =>
                 /\ out.err.kind = "mismatch"
                 /\ out.err.observable = inst.name
                 /\ out.err.from = inst.scope.Name
                 /\ out.err.with = s.Name
           /\ out.err = NilError <=> (Len(inst.measures) > 0 /\ ~differs)

C14_Witness ==
    /\ out.call.op = "registerable"
    /\ out.err.kind = "mismatch"
    /\ out.call.scope.Name = inst.scope.Name
    /\ out.call.scope.SchemaURL = inst.scope.SchemaURL
    /\ out.call.scope.Version # inst.scope.Version

\* ---------------------------------------------------------------------------
\* the mutex, the snapshot and the boundaries
\* ---------------------------------------------------------------------------

\* between Lock() and Unlock(): reading or writing s.values or an accumulator
WriterInside(w) == wr[w].pc \in {"lookup", "insert", "bin", "unlock"}
CollectorInside == col.pc \in {"check", "range", "unlock"}
Inside ==
    Cardinality({w \in Writers : WriterInside(w)})
       + (IF CollectorInside THEN 1 ELSE 0)

\* C15: at most one thread at a time is between Lock and Unlock, where the
\* map lookup, insert and bin of Aggregate and the whole iteration of
\* Aggregation are, and the mutex is held exactly while one is.
C15_MutualExclusion ==
    /\ Inside <= 1
    /\ mu <=> Inside = 1

\* the collector is in the middle of its iteration, every writer waits
C15_Witness ==
    /\ col.pc = "range"
    /\ col.dps # <<>>
    /\ col.order # <<>>
    /\ \A w \in Writers : wr[w].pc = "lock"

\* C16: a data point built while writers are accumulating holds the count,
\* sum, extrema and bucket counts of a set of wholly applied Aggregate calls,
\* the ones binned into its accumulator, and its Count is the sum of its
\* bucket counts.
C16_Step ==
    (col.pc = "range" /\ Len(col'.dps) = Len(col.dps) + 1) =>
       LET p == col'.dps[Len(col'.dps)]
           h == hist[p.Attributes]
           cnts == mem'[p.BucketCounts]
       IN /\ p.Count = SumSeq(cnts)
          /\ p.Count >= 1
          /\ p.Count = Size(h)
          /\ p.Sum = Total(h)
          /\ cnts = BucketsOf(h)
          /\ p.Min.valid /\ p.Min.value \in Support(h)
          /\ p.Max.valid /\ p.Max.value \in Support(h)
          /\ \A v \in Support(h) : p.Min.value <= v /\ v <= p.Max.value

C16_SnapshotSeesWholeCalls == [][C16_Step]_vars

\* the point was built between two calls for its attribute set: one binned,
\* one past its search and waiting for the lock
C16_Witness ==
    /\ col.pc \in {"range", "unlock"}
    /\ col.dps # <<>>
    /\ col.dps[1].Count = 2
    /\ col.dps[1].Min.value # col.dps[1].Max.value
    /\ \E w \in Writers :
          /\ wr[w].pc = "lock"
          /\ wr[w].attr = col.dps[1].Attributes
          /\ wr[w].done = 1

IsSorted(s) == \A i, j \in DOMAIN s : i < j => s[i] <= s[j]

\* C17: the aggregator's boundaries are the sorted copy of the configuration
\* made at construction, whatever the caller writes afterwards into the
\* configuration slice or into the slices of a returned data point and
\* whatever Aggregate and Aggregation calls are made.
C17_BoundsImmutable ==
    /\ IsSorted(mem[bounds])
    /\ \E c \in Cfgs :
          /\ c.NoMinMax = noMinMax
          /\ mem[bounds] = SortFloat64s(c.Boundaries)

\* the configuration slice was overwritten and a value binned afterwards
C17_Witness ==
    /\ nMut = 1
    /\ mem[cfg] = <<101, 1, 51>>
    /\ mem[bounds] = <<0, 50, 100>>
    /\ last.n >= 1
    /\ \E a \in DOMAIN values : Counts(a)[4] >= 1

\* the data point at <<result index, data point index>>
PointAt(q) == results[q[1]].DataPoints[q[2]]
ViewAfter(p) == [p EXCEPT !.Bounds = mem'[p.Bounds],
                          !.BucketCounts = mem'[p.BucketCounts]]

\* C18 as claimed: writing into the Bounds or the BucketCounts of one
\* returned data point changes no other returned data point.
C18_OriginalStep ==
    \A p \in Returned :
       (MutateCounts(p) \/ MutateBounds(p)) =>
          \A q \in Returned \ {p} : ViewAfter(PointAt(q)) = View(PointAt(q))

C18_PointsIndependent == [][C18_OriginalStep]_vars

\* C18: writing into the BucketCounts of one returned data point changes no
\* other returned data point; writing into its Bounds changes no data point
\* of another snapshot, and of the data points of the same snapshot it changes
\* the Bounds alone, which they all share.
C18_Step ==
    \A p \in Returned :
       /\ MutateCounts(p) =>
             \A q \in Returned \ {p} : ViewAfter(PointAt(q)) = View(PointAt(q))
       /\ MutateBounds(p) =>
             \A q \in Returned \ {p} :
                IF q[1] # p[1]
                THEN ViewAfter(PointAt(q)) = View(PointAt(q))
                ELSE /\ PointAt(q).Bounds = PointAt(p).Bounds
                     /\ ViewAfter(PointAt(q)) =
                           [View(PointAt(q)) EXCEPT
                               !.Bounds = ViewAfter(PointAt(p)).Bounds]
                     /\ ViewAfter(PointAt(q)).Bounds # View(PointAt(q)).Bounds

C18_PointsShareBoundsOnly == [][C18_Step]_vars

\* the Bounds of the two data points of the first snapshot were overwritten
\* through one of them; the second snapshot has its own
C18_Witness ==
    /\ nMut = 1
    /\ Len(results) = 2
    /\ Len(results[1].DataPoints) = 2
    /\ Len(results[2].DataPoints) = 2
    /\ \A p \in Points(1) : mem[p.Bounds] # mem[bounds]
    /\ \A p \in Points(2) : mem[p.Bounds] = mem[bounds]
    /\ \A p \in Points(1) \cup Points(2) : SumSeq(mem[p.BucketCounts]) = p.Count

\* the Count reported for an attribute set by the i-th snapshot
CountIn(dps, a) ==
    SumOver({k \in DOMAIN dps : dps[k].Attributes = a},
            [k \in DOMAIN dps |-> dps[k].Count])

\* ... by all the snapshots returned so far
ReportedCount(a) ==
    SumOver(1..Len(results),
            [i \in 1..Len(results) |-> CountIn(results[i].DataPoints, a)])

\* ... by the data points the collector has built and not yet returned
PendingCount(a) ==
    IF col.pc \in {"range", "unlock"} THEN CountIn(col.dps, a) ELSE 0

StoreCount(a) == IF a \in DOMAIN values THEN Acc(a).count ELSE 0

\* Aggregate calls that have returned
Completed == SumOver(Writers, [w \in Writers |-> wr[w].done])

ReportedTotal == SumOver(Attrs, [a \in Attrs |-> ReportedCount(a)])
PendingTotal == SumOver(Attrs, [a \in Attrs |-> PendingCount(a)])

\* the values binned for a before the i-th Aggregation call took the lock
SeenBefore(i, a) == IF i = 0 THEN 0 ELSE Size(calls[i].seen[a])

\* C19 as claimed: on a delta aggregator, at every moment the Counts of the
\* data points returned so far plus the counts held in the store add up to
\* the number of Aggregate calls that have completed.
C19_AtEveryMoment ==
    temporality = "delta" => ReportedTotal + StoreTotal = Completed

\* C19: on a delta aggregator every binned value is counted exactly once, in
\* the store, in a data point being built or in a returned one; a snapshot
\* reports for an attribute set the values binned between the previous
\* snapshot's lock and its own; and whenever the mutex is free the returned
\* Counts plus the counts in the store are the number of completed calls.
C19_ExactlyOnce ==
    temporality = "delta" =>
       /\ \A a \in Attrs :
             ReportedCount(a) + PendingCount(a) + StoreCount(a) = Size(seen[a])
       /\ \A i \in 1..Len(results) : \A a \in Attrs :
             CountIn(results[i].DataPoints, a) =
                SeenBefore(i, a) - SeenBefore(i - 1, a)
       /\ ~mu => /\ PendingTotal = 0
                 /\ ReportedTotal + StoreTotal = Completed

\* two snapshots reported one attribute set, a call for it returned after
\* the second one, and every call has returned
C19_Witness ==
    /\ temporality = "delta"
    /\ ~mu
    /\ AllReturned
    /\ Len(results) = 2
    /\ \E a \in Attrs :
          /\ CountIn(results[1].DataPoints, a) >= 1
          /\ CountIn(results[2].DataPoints, a) >= 1
          /\ StoreCount(a) >= 1
          /\ ReportedCount(a) + StoreCount(a) = NWriters * MCalls

\* values accumulated for a since the latest delta snapshot, or since
\* construction on a cumulative aggregator
SinceCycleStart(a) ==
    IF temporality = "delta" /\ calls # <<>>
    THEN Size(seen[a]) - Size(calls[Len(calls)].seen[a])
    ELSE Size(seen[a])

\* C20: an attribute set has an entry in the store only if a value was
\* accumulated for it in the current cycle, so no accumulator has count zero;
\* every data point of every snapshot has Count >= 1 and one bucket count
\* more than there are boundaries.
C20_NoEmptyAccumulator ==
    /\ \A a \in DOMAIN values :
          /\ SinceCycleStart(a) >= 1
          /\ Acc(a).count >= 1
          /\ Len(Counts(a)) = Len(mem[bounds]) + 1
    /\ \A a \in Attrs \ DOMAIN values :
          temporality = "delta" => SinceCycleStart(a) = 0
    /\ \A i \in 1..Len(results) : \A p \in Points(i) :
          /\ p.Count >= 1
          /\ Len(mem[p.Bounds]) = Len(mem[bounds])
          /\ Len(mem[p.BucketCounts]) = Len(mem[bounds]) + 1

\* a delta snapshot removed the entry of an attribute set and a later
\* Aggregate created it again with its first value
C20_Witness ==
    /\ temporality = "delta"
    /\ Len(mem[bounds]) = 3
    /\ Len(results) >= 1
    /\ \E p \in Points(1) :
          /\ p.Count = 1
          /\ Len(mem[p.BucketCounts]) = 4
          /\ p.Attributes \in DOMAIN values
          /\ Acc(p.Attributes).count = 1
          /\ Size(seen[p.Attributes]) = 2

\* ---------------------------------------------------------------------------
\* termination under fair scheduling
\* ---------------------------------------------------------------------------

LiveValues == {110}

\* the steps of writer w between its Lock() and its return
WriterRuns(w) == WLookup(w) \/ WInsert(w) \/ WBin(w) \/ WUnlock(w)

\* the steps of the collector between its Lock() and its return
CollectorRuns == CCheck(clock) \/ CIter \/ CReturn \/ CUnlock

\* the threads of SpecConc, with one value and a clock that stands still
NextLive ==
    \/ \E w \in Writers, value \in LiveValues, attr \in Attrs :
          WCall(w, value, attr)
    \/ \E w \in Writers : WLock(w)
    \/ \E w \in Writers : WLookup(w)
    \/ \E w \in Writers : WInsert(w)
    \/ \E w \in Writers : WBin(w)
    \/ \E w \in Writers : WUnlock(w)
    \/ CCall
    \/ CLock
    \/ CCheck(clock)
    \/ CIter
    \/ CReturn
    \/ CUnlock

\* the Go scheduler runs every runnable goroutine again and again, and
\* sync.Mutex hands the lock to a waiter that would otherwise starve; nothing
\* obliges a caller to make another call
Fairness ==
    /\ \A w \in Writers : WF_vars(WriterRuns(w)) /\ SF_vars(WLock(w))
    /\ WF_vars(CollectorRuns)
    /\ SF_vars(CLock)

SpecLive == InitConc /\ [][NextLive]_vars /\ Fairness

\* C21: under fair scheduling every Aggregate call and every Aggregation call
\* that was started returns, the Aggregation that finds no data included, and
\* a lock that is held is released.
C21_CallsReturn ==
    /\ \A w \in Writers : (wr[w].pc # "idle") ~> (wr[w].pc = "idle")
    /\ (col.pc # "idle") ~> (col.pc = "idle")
    /\ mu ~> ~mu

\* every writer made all its calls, the collector returned a snapshot with
\* data and then one that found no data, and the lock is free
C21_Witness ==
    /\ AllReturned
    /\ col.pc = "idle"
    /\ ~mu
    /\ Len(results) = 2
    /\ ~results[1].nil
    /\ results[2].nil
    /\ temporality = "delta"

====
